---- MODULE Spec2Model ----
(***************************************************************************)
(* State-machine model of src/pool.py (class Pool): a pool of per-worker   *)
(* segments filled by `processes` worker processes (store_in_parallel),    *)
(* spawned and joined by store(), and read by get_pool().                  *)
(*                                                                         *)
(* Conventions                                                             *)
(*  - A Python list is a TLA+ sequence; Python index i is position i+1.    *)
(*  - An optional value (None or a value) is a set: {} is None, {v} is v.  *)
(*  - A numpy array is the sequence of its rows along axis 0.  A sample    *)
(*    (s, a, next_s, r, done) produced by one env.step is identified by    *)
(*    <<p, c, n>> (worker p, c-th call of store, n-th step of the          *)
(*    episode); each field array holds, per row, the identity of the       *)
(*    sample the row came from.                                            *)
(*  - An uncaught Python exception ends the worker process (pc "dead");    *)
(*    whatever the process had written or locked before stays as it is.    *)
(*  - env[p].reset, env[p].step and select_action are collaborators        *)
(*    supplied by the caller; they are taken to return, and an episode     *)
(*    reports done after at most MaxEpisode steps.                         *)
(***************************************************************************)
EXTENDS Integers, Sequences, FiniteSets, TLC

\* ------------------------------------------------------------------ bounds
MaxProcesses == 2
MaxPoolSize == 2
MaxWindow == 2
MaxFreq == 1
MaxEpisode == 2
MaxStores == 2

VARIABLES
  processes, pool_size, window_size, clearing_freq, window_size_, random,
  state_pool_list, action_pool_list, next_state_pool_list,
  reward_pool_list, done_pool_list,
  inverse_len, lock_list, store_counter,
  pc, index, done, episode,
  main, nstore, result,
  appended, writers

conf == <<processes, pool_size, window_size, clearing_freq, window_size_, random>>
lists == <<state_pool_list, action_pool_list, next_state_pool_list,
           reward_pool_list, done_pool_list>>
locals == <<index, done, episode>>
ghost == <<appended, writers>>
vars == <<conf, lists, inverse_len, lock_list, store_counter, pc, locals,
          main, nstore, result, ghost>>

\* ------------------------------------------------------------------ values
None == {}
Some(v) == {v}
Val(o) == CHOOSE v \in o : TRUE

Workers == 0 .. (processes - 1)
At(l, i) == l[i + 1]
Put(l, i, v) == [l EXCEPT ![i + 1] = v]
InRange(l, i) == i >= 0 /\ i < Len(l)

\* (variant: a slice that starts beyond the end keeps every row)
SliceFrom_keeping(x, w) ==
  IF w = None THEN x
  ELSE IF Val(w) > Len(x) THEN x
  ELSE SubSeq(x, Val(w) + 1, Len(x))

\* x[w:] for a Python sequence x: w = None keeps x; 0 <= w drops the first
\* min(w, len(x)) rows.
SliceFrom(x, w) ==
  IF w = None THEN x
  ELSE IF Val(w) >= Len(x) THEN <<>>
  ELSE SubSeq(x, Val(w) + 1, Len(x))

\* math.ceil(a / b) for b > 0
Ceil(a, b) == -((-a) \div b)

\* np.concatenate(l) over a list of arrays, along axis 0, in list order
RECURSIVE Concatenate(_)
\* (variant: the arrays joined in reverse list order)
Concatenate_reversed(l) ==
  IF l = <<>> THEN <<>> ELSE Concatenate(Tail(l)) \o Val(Head(l))

Concatenate(l) ==
  IF l = <<>> THEN <<>> ELSE Val(Head(l)) \o Concatenate(Tail(l))

\* ------------------------------------------------------------------ Pool.pool
\* The shared lists as one value, with the flag `raised` set once a statement
\* of pool() has raised: the statements after it do not run.
Cur == [st |-> state_pool_list, ac |-> action_pool_list,
        ns |-> next_state_pool_list, rw |-> reward_pool_list,
        dn |-> done_pool_list, sc |-> store_counter, raised |-> FALSE]

Raise(P) == [P EXCEPT !.raised = TRUE]

\* lines 34-37: the four concatenations that precede line 38
ConcatFour(P, x, i) ==
  [P EXCEPT !.st = Put(P.st, i, Some(Val(At(P.st, i)) \o <<x>>)),
            !.ac = Put(P.ac, i, Some(Val(At(P.ac, i)) \o <<x>>)),
            !.ns = Put(P.ns, i, Some(Val(At(P.ns, i)) \o <<x>>)),
            !.rw = Put(P.rw, i, Some(Val(At(P.rw, i)) \o <<x>>))]

\* line 38: the right-hand side reads self.done_pool[7]; Pool has no attribute
\* done_pool, so the statement raises AttributeError before it assigns.
DoneConcat(P, x, i) == Raise(P)

\* lines 27-38.  Line 27 indexes state_pool_list: IndexError when the list has
\* no slot `i`.
append(P, x, i) ==
  IF ~InRange(P.st, i) THEN Raise(P)
  ELSE IF At(P.st, i) = None
       THEN [P EXCEPT !.st = Put(P.st, i, Some(<<x>>)),
                      !.ac = Put(P.ac, i, Some(<<x>>)),
                      !.ns = Put(P.ns, i, Some(<<x>>)),
                      !.rw = Put(P.rw, i, Some(<<x>>)),
                      !.dn = Put(P.dn, i, Some(<<x>>))]
       ELSE DoneConcat(ConcatFour(P, x, i), x, i)

\* lines 42-46, 49-53, 55-59: the five fields sliced [w:]
Truncate(P, i, w) ==
  [P EXCEPT !.st = Put(P.st, i, Some(SliceFrom(Val(At(P.st, i)), w))),
            !.ac = Put(P.ac, i, Some(SliceFrom(Val(At(P.ac, i)), w))),
            !.ns = Put(P.ns, i, Some(SliceFrom(Val(At(P.ns, i)), w))),
            !.rw = Put(P.rw, i, Some(SliceFrom(Val(At(P.rw, i)), w))),
            !.dn = Put(P.dn, i, Some(SliceFrom(Val(At(P.dn, i)), w)))]

\* lines 39-46.  Line 40 indexes store_counter (IndexError when it has no slot
\* `i`); line 41 divides by clearing_freq (ZeroDivisionError when it is 0).
PeriodicClearing(P, i) ==
  IF P.raised \/ clearing_freq = None THEN P
  ELSE IF ~InRange(P.sc, i) THEN Raise(P)
  ELSE LET c == At(P.sc, i) + 1
           P1 == [P EXCEPT !.sc = Put(P.sc, i, c)]
       IN IF Val(clearing_freq) = 0 THEN Raise(P1)
          ELSE IF c % Val(clearing_freq) = 0
               THEN Truncate(P1, i, window_size_)
               ELSE P1

\* (variant: the capacity check never truncates)
CapacityEnforcement_never(P, i) == P

\* lines 47-59
CapacityEnforcement(P, i) ==
  IF P.raised THEN P
  ELSE IF Len(Val(At(P.st, i))) > Ceil(pool_size, processes)
       THEN IF window_size # None
            THEN Truncate(P, i, window_size)
            ELSE Truncate(P, i, Some(1))
       ELSE P

\* lines 26-59: pool(s, a, next_s, r, done, index) for the sample x
pool(x, i) == CapacityEnforcement(PeriodicClearing(append(Cur, x, i), i), i)

\* ------------------------------------------------------------------ Init
Opt(S) == {None} \cup {Some(v) : v \in S}

\* Pool.__init__ (lines 7-24): the five manager lists and store_counter are
\* created empty; inverse_len holds `processes` zeros and lock_list `processes`
\* free locks.  window_size_ is read only when clearing_freq is set, so it is
\* enumerated only then.
Init ==
  /\ processes \in 0 .. MaxProcesses
  /\ pool_size \in 0 .. MaxPoolSize
  /\ window_size \in Opt(0 .. MaxWindow)
  /\ clearing_freq \in Opt(0 .. MaxFreq)
  /\ window_size_ \in IF clearing_freq = None THEN {None} ELSE Opt(0 .. MaxWindow)
  /\ random \in BOOLEAN
  /\ state_pool_list = <<>>
  /\ action_pool_list = <<>>
  /\ next_state_pool_list = <<>>
  /\ reward_pool_list = <<>>
  /\ done_pool_list = <<>>
  /\ inverse_len = [k \in 1 .. processes |-> 0]
  /\ lock_list = [k \in 1 .. processes |-> FALSE]
  /\ store_counter = <<>>
  /\ pc = [k \in 1 .. processes |-> "idle"]
  /\ index = [k \in 1 .. processes |-> k - 1]
  /\ done = [k \in 1 .. processes |-> FALSE]
  /\ episode = [k \in 1 .. processes |-> 0]
  /\ main = "ready"
  /\ nstore = 0
  /\ result = None
  /\ appended = [k \in 1 .. processes |-> <<>>]
  /\ writers = [k \in 1 .. processes |-> {}]

\* The set-up the caller performs before the first store(): one unset (None)
\* slot per worker in each of the five lists, one zero per worker in
\* store_counter when periodic clearing is configured.
Populate ==
  /\ main = "ready"
  /\ nstore = 0
  /\ processes > 0
  /\ state_pool_list = <<>>
  /\ state_pool_list' = [k \in 1 .. processes |-> None]
  /\ action_pool_list' = [k \in 1 .. processes |-> None]
  /\ next_state_pool_list' = [k \in 1 .. processes |-> None]
  /\ reward_pool_list' = [k \in 1 .. processes |-> None]
  /\ done_pool_list' = [k \in 1 .. processes |-> None]
  /\ store_counter' = IF clearing_freq = None THEN <<>>
                      ELSE [k \in 1 .. processes |-> 0]
  /\ UNCHANGED <<conf, inverse_len, lock_list, pc, locals, main, nstore,
                 result, ghost>>

\* ------------------------------------------------------------------ store
\* store(), lines 90-94: one process per worker index is started.
StoreStart ==
  /\ main = "ready"
  /\ nstore < MaxStores
  /\ main' = "join"
  /\ nstore' = nstore + 1
  /\ pc' = [k \in 1 .. processes |-> "loop"]
  /\ result' = None
  /\ UNCHANGED <<conf, lists, inverse_len, lock_list, store_counter, locals,
                 ghost>>

Terminated(p) == At(pc, p) \in {"returned", "dead"}

\* store(), lines 95-96: join() returns for a process that has exited, by
\* return or by an uncaught exception alike; store() then returns None.
StoreReturn ==
  /\ main = "join"
  /\ \A p \in Workers : Terminated(p)
  /\ main' = "ready"
  /\ UNCHANGED <<conf, lists, inverse_len, lock_list, store_counter, pc,
                 locals, nstore, result, ghost>>

\* ------------------------------------------------------------------ store_in_parallel
\* The sample worker p holds between env.step and the end of pool()
sample(p) == <<p, nstore, At(episode, p)>>

\* The locals of a process that has exited
Exit(p, how) ==
  /\ pc' = Put(pc, p, how)
  /\ index' = Put(index, p, p)
  /\ done' = Put(done, p, FALSE)
  /\ episode' = Put(episode, p, 0)

\* (variant: the bootstrap branch claims segment 0 whatever p is)
ChosenIndex_first(p) ==
  IF random
  THEN IF ~InRange(state_pool_list, p) THEN None
       ELSE IF At(state_pool_list, p) = None THEN Some(0)
       ELSE None
  ELSE Some(p)

\* (variant: the deterministic mode writes to segment 0 whatever p is)
ChosenIndex_zero(p) ==
  IF random
  THEN IF ~InRange(state_pool_list, p) THEN None
       ELSE IF At(state_pool_list, p) = None THEN Some(p)
       ELSE None
  ELSE Some(0)

\* lines 65-75, the index worker p computes: {} when the computation raises.
\* random: line 66 indexes state_pool_list (IndexError when it has no slot p).
\* When slot p is set, lines 70-72 run: np.sum over the list proxy, the
\* division, and prob.numpy() on the resulting ndarray, which has no attribute
\* numpy, so line 72 raises AttributeError before an index is drawn and line 73
\* is not reached.
ChosenIndex(p) ==
  IF random
  THEN IF ~InRange(state_pool_list, p) THEN None
       ELSE IF At(state_pool_list, p) = None THEN Some(p)
       ELSE None
  ELSE Some(p)

\* (variant: the bootstrap branch leaves the worker's weight at 0)
SelectAndStep_unweighted(p) ==
  /\ At(pc, p) = "loop"
  /\ ChosenIndex(p) # None
  /\ index' = Put(index, p, Val(ChosenIndex(p)))
  /\ episode' = Put(episode, p, At(episode, p) + 1)
  /\ \E d \in (IF At(episode, p) + 1 >= MaxEpisode THEN {TRUE} ELSE BOOLEAN) :
       done' = Put(done, p, d)
  /\ pc' = Put(pc, p, "acquire")
  /\ UNCHANGED <<conf, lists, inverse_len, lock_list, store_counter, main,
                 nstore, result, ghost>>

\* lines 62-81, from the top of the loop (after env[p].reset() on the first
\* pass) to the sample being ready: the index is computed, line 68 sets the
\* worker's own weight to 1 in the bootstrap case, select_action and
\* env[p].step produce the sample and its done flag.  An episode ends after at
\* most MaxEpisode steps.
SelectAndStep(p) ==
  /\ At(pc, p) = "loop"
  /\ ChosenIndex(p) # None
  /\ index' = Put(index, p, Val(ChosenIndex(p)))
  /\ inverse_len' = IF random THEN Put(inverse_len, p, 1) ELSE inverse_len
  /\ episode' = Put(episode, p, At(episode, p) + 1)
  /\ \E d \in (IF At(episode, p) + 1 >= MaxEpisode THEN {TRUE} ELSE BOOLEAN) :
       done' = Put(done, p, d)
  /\ pc' = Put(pc, p, "acquire")
  /\ UNCHANGED <<conf, lists, lock_list, store_counter, main, nstore, result,
                 ghost>>

\* lines 66-72: the index computation raises; the process exits
SelectRaises(p) ==
  /\ At(pc, p) = "loop"
  /\ ChosenIndex(p) = None
  /\ Exit(p, "dead")
  /\ UNCHANGED <<conf, lists, inverse_len, lock_list, store_counter, main,
                 nstore, result, ghost>>

\* (variant: the worker enters pool() without taking the lock)
Acquire_unlocked(p) ==
  /\ At(pc, p) = "acquire"
  /\ pc' = Put(pc, p, "pool")
  /\ UNCHANGED <<conf, lists, inverse_len, lock_list, store_counter, locals,
                 main, nstore, result, ghost>>

\* line 82: lock_list[index].acquire() blocks while the lock is held
Acquire(p) ==
  /\ At(pc, p) = "acquire"
  /\ ~At(lock_list, At(index, p))
  /\ lock_list' = Put(lock_list, At(index, p), TRUE)
  /\ pc' = Put(pc, p, "pool")
  /\ UNCHANGED <<conf, lists, inverse_len, store_counter, locals, main,
                 nstore, result, ghost>>

\* line 83: self.pool(s, a, next_s, r, done, index).  When pool raises, the
\* exception leaves store_in_parallel uncaught: line 84 does not run and the
\* process exits with lock_list[index] acquired.
PoolCall(p) ==
  /\ At(pc, p) = "pool"
  /\ LET i == At(index, p)
         P == pool(sample(p), i)
     IN /\ state_pool_list' = P.st
        /\ action_pool_list' = P.ac
        /\ next_state_pool_list' = P.ns
        /\ reward_pool_list' = P.rw
        /\ done_pool_list' = P.dn
        /\ store_counter' = P.sc
        /\ IF P.raised
           THEN Exit(p, "dead")
           ELSE pc' = Put(pc, p, "release") /\ UNCHANGED locals
        /\ appended' = Put(appended, i, At(appended, i) \o <<sample(p)>>)
        /\ writers' = Put(writers, i, At(writers, i) \cup {p})
  /\ UNCHANGED <<conf, inverse_len, lock_list, main, nstore, result>>

\* lines 84-87: release, then return when done, else loop with s = next_s
Release(p) ==
  /\ At(pc, p) = "release"
  /\ lock_list' = Put(lock_list, At(index, p), FALSE)
  /\ IF At(done, p)
     THEN Exit(p, "returned")
     ELSE /\ pc' = Put(pc, p, "loop")
          /\ done' = Put(done, p, FALSE)
          /\ UNCHANGED <<index, episode>>
  /\ UNCHANGED <<conf, lists, inverse_len, store_counter, main, nstore,
                 result, ghost>>

\* ------------------------------------------------------------------ get_pool
\* np.concatenate(l) raises ValueError for an empty list ("need at least one
\* array") and for a list holding None (a zero-dimensional operand).
CanConcatenate(l) == l # <<>> /\ \A k \in 1 .. Len(l) : l[k] # None

\* (variant: an unset slot is read as a one-row array holding None, and the
\* concatenation goes through)
Coerced(l) == [k \in 1 .. Len(l) |-> IF l[k] = None THEN Some(<<None>>) ELSE l[k]]

get_pool_coerced ==
  IF state_pool_list # <<>>
  THEN [ok |-> TRUE,
        state_pool |-> Concatenate(Coerced(state_pool_list)),
        action_pool |-> Concatenate(Coerced(action_pool_list)),
        next_state_pool |-> Concatenate(Coerced(next_state_pool_list)),
        reward_pool |-> Concatenate(Coerced(reward_pool_list)),
        done_pool |-> Concatenate(Coerced(done_pool_list))]
  ELSE [ok |-> FALSE, state_pool |-> <<>>, action_pool |-> <<>>,
        next_state_pool |-> <<>>, reward_pool |-> <<>>, done_pool |-> <<>>]

\* lines 98-104: the five concatenations run in order; the first that raises
\* ends the call with that error.
get_pool ==
  IF /\ CanConcatenate(state_pool_list)
     /\ CanConcatenate(action_pool_list)
     /\ CanConcatenate(next_state_pool_list)
     /\ CanConcatenate(reward_pool_list)
     /\ CanConcatenate(done_pool_list)
  THEN [ok |-> TRUE,
        state_pool |-> Concatenate(state_pool_list),
        action_pool |-> Concatenate(action_pool_list),
        next_state_pool |-> Concatenate(next_state_pool_list),
        reward_pool |-> Concatenate(reward_pool_list),
        done_pool |-> Concatenate(done_pool_list)]
  ELSE [ok |-> FALSE, state_pool |-> <<>>, action_pool |-> <<>>,
        next_state_pool |-> <<>>, reward_pool |-> <<>>, done_pool |-> <<>>]

\* (variant: get_pool() hands the arrays over and leaves every slot unset)
GetPool_draining ==
  /\ main = "ready"
  /\ result' = Some(get_pool)
  /\ state_pool_list' = [k \in 1 .. Len(state_pool_list) |-> None]
  /\ action_pool_list' = [k \in 1 .. Len(action_pool_list) |-> None]
  /\ next_state_pool_list' = [k \in 1 .. Len(next_state_pool_list) |-> None]
  /\ reward_pool_list' = [k \in 1 .. Len(reward_pool_list) |-> None]
  /\ done_pool_list' = [k \in 1 .. Len(done_pool_list) |-> None]
  /\ UNCHANGED <<conf, inverse_len, lock_list, store_counter, pc,
                 locals, main, nstore, ghost>>

\* store() has no return value; `result` holds what the last get_pool() since
\* the last store() returned (None before any call).
GetPool ==
  /\ main = "ready"
  /\ result' = Some(get_pool)
  /\ UNCHANGED <<conf, lists, inverse_len, lock_list, store_counter, pc,
                 locals, main, nstore, ghost>>

\* ------------------------------------------------------------------ Next
Next ==
  \/ Populate
  \/ StoreStart
  \/ StoreReturn
  \/ GetPool
  \/ \E p \in Workers : SelectAndStep(p)
  \/ \E p \in Workers : SelectRaises(p)
  \/ \E p \in Workers : Acquire(p)
  \/ \E p \in Workers : PoolCall(p)
  \/ \E p \in Workers : Release(p)

Spec == Init /\ [][Next]_vars

\* ================================================================== claims
\* Worker p is between lock_list[index].acquire() and lock_list[index].release()
InCS(p) == At(pc, p) \in {"pool", "release"}

\* Some running worker is inside pool() on segment i
Busy(i) == \E p \in Workers : InCS(p) /\ At(index, p) = i

\* Segment i exists in the five lists and has received its first append
Written(i) == InRange(state_pool_list, i) /\ At(state_pool_list, i) # None

Fields == <<state_pool_list, action_pool_list, next_state_pool_list,
            reward_pool_list, done_pool_list>>

\* The rows of field f (1..5) of segment i
Seg(f, i) == Val(At(Fields[f], i))

\* The per-segment soft cap, line 47
Cap == Ceil(pool_size, processes)

IsSuffix(s, t) ==
  /\ Len(s) <= Len(t)
  /\ s = SubSeq(t, Len(t) - Len(s) + 1, Len(t))

LastN(t, n) == IF n >= Len(t) THEN t ELSE SubSeq(t, Len(t) - n + 1, Len(t))

\* ---- C1
\* C1: for every segment i at most one worker is between
\* lock_list[i].acquire() and lock_list[i].release() at any instant, and a
\* worker that is there holds lock i.
C1_MutualExclusion ==
  /\ \A p, q \in Workers :
       (p # q /\ InCS(p) /\ InCS(q)) => At(index, p) # At(index, q)
  /\ \A p \in Workers : InCS(p) => At(lock_list, At(index, p))

\* C1 witness: two workers with different indexes are inside pool() together.
C1_Witness ==
  \E p, q \in Workers :
    /\ At(pc, p) = "pool" /\ At(pc, q) = "pool"
    /\ At(index, p) # At(index, q)

\* ---- C2
\* C2: whenever no worker is inside the append+eviction of segment i, the
\* five field sequences of segment i have the same length (stated for
\* pool_size > 0).
C2_EqualLengths ==
  \A i \in Workers :
    (pool_size > 0 /\ Written(i) /\ ~Busy(i)) =>
      \A f \in 2 .. 5 : Len(Seg(f, i)) = Len(Seg(1, i))

\* ---- C3
\* The window the capacity check drops: window_size, or 1 when it is unset
Window == IF window_size = None THEN 1 ELSE Val(window_size)

\* Worker p has completed a store: pool() has returned on its segment
Stored(p) == At(pc, p) = "release"

C4_ContiguousSuffix ==
  \A i \in Workers :
    (pool_size > 0 /\ Written(i) /\ ~Busy(i)) =>
      \A f \in 1 .. 5 : IsSuffix(Seg(f, i), At(appended, i))

\* ---- C5
\* C5: with random = false, worker p only ever asks for lock p and only ever
\* calls pool() on segment p: no segment is written by another worker.
C5_DeterministicOwnSegment ==
  ~random =>
    /\ \A p \in Workers :
         At(pc, p) \in {"acquire", "pool", "release"} => At(index, p) = p
    /\ \A i \in Workers : At(writers, i) \subseteq {i}

\* C5 witness: deterministic mode, every one of two or more workers has
\* written its segment.
C5_Witness ==
  /\ ~random
  /\ processes >= 2
  /\ \A i \in Workers : Written(i) /\ At(writers, i) = {i}

\* ---- C6
RECURSIVE SumLen(_, _)
\* Total number of rows of the first n arrays of list l
SumLen(l, n) == IF n = 0 THEN 0 ELSE Len(Val(l[n])) + SumLen(l, n - 1)

\* r lays the arrays of l end to end: segment k's j-th row is at position
\* (rows of the segments before k) + j
LaidOut(l, r) ==
  /\ Len(r) = SumLen(l, Len(l))
  /\ \A k \in 1 .. Len(l) : \A j \in 1 .. Len(Val(l[k])) :
       r[SumLen(l, k - 1) + j] = Val(l[k])[j]

AllWritten ==
  /\ processes > 0
  /\ \A i \in Workers : Written(i)

\* C6: when every segment has been written, get_pool() returns for each field
\* the segments' rows in worker-index order and, inside a segment, in append
\* order; each returned length is the sum of the segment lengths.
C6_Aggregation ==
  (result # None /\ AllWritten) =>
    /\ Val(result).ok
    /\ LaidOut(state_pool_list, Val(result).state_pool)
    /\ LaidOut(action_pool_list, Val(result).action_pool)
    /\ LaidOut(next_state_pool_list, Val(result).next_state_pool)
    /\ LaidOut(reward_pool_list, Val(result).reward_pool)
    /\ LaidOut(done_pool_list, Val(result).done_pool)

\* C6 witness: get_pool() has returned over two written segments, one of them
\* holding two rows.
C6_Witness ==
  /\ result # None /\ AllWritten /\ processes = 2
  /\ Len(Seg(1, 0)) = 2
  /\ Len(Seg(1, 1)) >= 1

\* ---- C7
\* Some step of worker p can be taken
CanStep(p) ==
  ENABLED (SelectAndStep(p) \/ SelectRaises(p) \/ Acquire(p) \/ PoolCall(p)
           \/ Release(p))

\* C7: while store() is joining, some worker can take a step or store() can
\* return: no worker waits forever for a segment lock.
C7_StoreNeverStuck ==
  main = "join" => ((\E p \in Workers : CanStep(p)) \/ ENABLED StoreReturn)

\* ---- C8
\* C8: in a state where store() has returned, every worker has terminated, no
\* worker is inside an append and no segment lock is held.
C8_QuiescentAfterStore ==
  (main = "ready" /\ nstore > 0) =>
    /\ \A p \in Workers : Terminated(p) /\ ~InCS(p)
    /\ \A i \in Workers : ~At(lock_list, i)

\* ---- C9
\* C9: a worker that waits for a segment lock waits for a running worker that
\* is inside pool() on that segment, never for a lock a failed worker left
\* acquired.
C9_FailureIsolated ==
  \A p \in Workers :
    (At(pc, p) = "acquire" /\ At(lock_list, At(index, p))) =>
      Busy(At(index, p))

\* ---- C10
\* C10: window_size and clearing_freq unset, pool_size > 0; once pool() has been called n
\* times for segment i with n >= ceil(pool_size/processes), and no worker is
\* inside pool() on it, each field of the segment holds exactly the last
\* ceil(pool_size/processes) samples in append order.
C10_LastCapSamples ==
  (window_size = None /\ clearing_freq = None /\ pool_size > 0) =>
    \A i \in Workers :
      (Written(i) /\ ~Busy(i) /\ Len(At(appended, i)) >= Cap) =>
        \A f \in 1 .. 5 : Seg(f, i) = LastN(At(appended, i), Cap)

\* ---- C11
\* C11: with clearing_freq configured (and not 0), whenever no worker is
\* inside pool() on segment i, the store counter of segment i equals the
\* number of appends made to segment i.
C11_CounterCountsAppends ==
  (clearing_freq # None /\ clearing_freq # Some(0) /\ pool_size > 0) =>
    \A i \in Workers :
      (Written(i) /\ ~Busy(i)) => At(store_counter, i) = Len(At(appended, i))

\* ---- C12
\* Every field of segment i holds n rows
FieldLens(i, n) == \A f \in 1 .. 5 : Len(Seg(f, i)) = n

\* The periodic clearing runs in the next pool() call on segment i
ClearingDue(i) ==
  /\ clearing_freq # None /\ clearing_freq # Some(0)
  /\ InRange(store_counter, i)
  /\ (At(store_counter, i) + 1) % Val(clearing_freq) = 0

\* C12: in every pool() call, (a) a first append followed by a periodic
\* clearing with window_size_ greater than the length, or by a capacity
\* truncation with window_size greater than the length, returns without error
\* and leaves the five fields set and of length 0; (b) a written segment never
\* becomes unset again; (c) an append to a written segment of length 0 takes
\* the concatenate path (lines 34-38): the state field becomes the old rows
\* followed by the sample and the done field is not re-initialised.
C12_OverlongDropClears ==
  [][\A p, i \in Workers :
       (At(pc, p) = "pool" /\ At(pc, p)' # "pool" /\ At(index, p) = i) =>
         /\ ( /\ InRange(state_pool_list, i)
              /\ At(state_pool_list, i) = None
              /\ \/ ClearingDue(i) /\ window_size_ # None
                    /\ Val(window_size_) > 1
                 \/ clearing_freq = None /\ 1 > Cap /\ window_size # None
                    /\ Val(window_size) > 1 )
            => (At(pc, p)' = "release" /\ Written(i)' /\ FieldLens(i, 0)')
         /\ \A j \in Workers : Written(j) => Written(j)'
         /\ (Written(i) /\ Len(Seg(1, i)) = 0)
            => /\ Seg(1, i)' = <<sample(p)>>
               /\ done_pool_list' = done_pool_list
               /\ At(pc, p)' = "dead"]_vars

\* C12 witness: the first append to segment p was cleared with
\* window_size_ = 2 > 1, the segment stayed set and empty, and the worker's
\* next append went through the concatenate path.
C12_Witness ==
  \E p \in Workers :
    /\ clearing_freq = Some(1) /\ window_size_ = Some(2)
    /\ Written(p) /\ ~Busy(p)
    /\ Len(At(appended, p)) = 2
    /\ Seg(1, p) = <<At(appended, p)[2]>>
    /\ Len(Seg(5, p)) = 0

\* ---- C13
\* Some slot of the five lists is still unset
SomeUnset ==
  \E i \in Workers : InRange(state_pool_list, i) /\ At(state_pool_list, i) = None

\* The arrays of the set slots of l, in list order
SetOnly(l) == SelectSeq(l, LAMBDA o : o # None)

\* C13: a get_pool() call made while some segment is unset either ends with
\* an error, or returns for each field exactly the rows of the set segments;
\* in both cases it leaves the five lists as they were.
C13_UnsetSegmentReported ==
  [][(result' # result /\ result' # None /\ SomeUnset) =>
       /\ \/ ~Val(result').ok
          \/ /\ Val(result').state_pool = Concatenate(SetOnly(state_pool_list))
             /\ Val(result').action_pool = Concatenate(SetOnly(action_pool_list))
             /\ Val(result').next_state_pool =
                  Concatenate(SetOnly(next_state_pool_list))
             /\ Val(result').reward_pool = Concatenate(SetOnly(reward_pool_list))
             /\ Val(result').done_pool = Concatenate(SetOnly(done_pool_list))
       /\ lists' = lists]_vars

\* C13 witness: get_pool() has ended with an error while the lists hold unset
\* slots.
C13_Witness ==
  /\ SomeUnset
  /\ result # None
  /\ ~Val(result).ok

\* ---- C14
\* C14: no Pool object exists whose configuration has processes <= 0 or
\* pool_size <= 0: every constructed Pool has processes > 0 and pool_size > 0.
C14_DegenerateRejected == processes > 0 /\ pool_size > 0

\* ---- C15
\* C15: a get_pool() call changes none of the five lists, no store counter,
\* no occupancy entry and no lock, and a second call with no store() in
\* between returns what the first returned.
C15_ReadOnly ==
  [][/\ result' # result =>
          /\ lists' = lists
          /\ store_counter' = store_counter
          /\ inverse_len' = inverse_len
          /\ lock_list' = lock_list
     /\ (result # None /\ result' # None /\ lists' = lists) => result' = result]_vars

\* C15 witness: get_pool() has returned the aggregate of written segments
\* after a store().
C15_Witness ==
  /\ result # None
  /\ Val(result).ok
  /\ Len(Val(result).state_pool) >= 2
  /\ AllWritten

\* ---- C16
\* Slot p exists and is unset
Unset(p) == InRange(state_pool_list, p) /\ At(state_pool_list, p) = None

\* C16: with random = true, (a) a pass of worker p through lines 65-81 made
\* while segment p is unset raises nothing, yields index p and sets
\* inverse_len[p] to 1, so the weighted branch is entered only once segment p
\* is written; (b) the append of lines 27-32 on an unset segment raises
\* nothing and leaves each of the five fields with one row, the sample, and
\* the segment is written when pool() ends.
C16_Bootstrap ==
  [][random =>
       \A p \in Workers :
         /\ (At(pc, p) = "loop" /\ At(pc, p)' # "loop" /\ Unset(p)) =>
              /\ At(pc, p)' = "acquire"
              /\ At(index, p)' = p
              /\ At(inverse_len, p)' = 1
         /\ (At(pc, p) = "pool" /\ At(pc, p)' # "pool" /\ Unset(At(index, p))) =>
              LET i == At(index, p)
                  A == append(Cur, sample(p), i)
              IN /\ ~A.raised
                 /\ At(A.st, i) = Some(<<sample(p)>>)
                 /\ At(A.ac, i) = Some(<<sample(p)>>)
                 /\ At(A.ns, i) = Some(<<sample(p)>>)
                 /\ At(A.rw, i) = Some(<<sample(p)>>)
                 /\ At(A.dn, i) = Some(<<sample(p)>>)
                 /\ \A j \in Workers : j = i => Written(j)']_vars

\* C16 witness: random mode, two workers, each has bootstrapped its own
\* segment: weight 1, one row in every field.
C16_Witness ==
  /\ random
  /\ processes = 2
  /\ \A p \in Workers :
       /\ Stored(p) /\ At(index, p) = p
       /\ At(inverse_len, p) = 1
       /\ FieldLens(p, 1)

\* ---- C17
\* C17: with random = true and pool_size > 0, a worker at the top of its loop whose own segment
\* is written obtains an index by weighted choice and goes on to store the
\* sample (the store after which inverse_len[index] is to be
\* 1/(new length + 1)).
C17_WeightedChoiceStores ==
  \A p \in Workers :
    (random /\ pool_size > 0 /\ At(pc, p) = "loop" /\ Written(p)) =>
      ENABLED SelectAndStep(p)

\* ---- C18
\* C18: in every pool() call whose append (lines 27-38) raises, none of the
\* five lists has changed when the call ends (stated for pool_size > 0).
C18_AllOrNothing ==
  [][\A p \in Workers :
       (pool_size > 0 /\ At(pc, p) = "pool" /\ At(pc, p)' # "pool") =>
         (append(Cur, sample(p), At(index, p)).raised => lists' = lists)]_vars

\* ---- C19
\* C19: lock i is held only while a running worker is inside pool() on
\* segment i (between lines 82 and 84): never while its holder selects an
\* action, steps its environment or computes an index, and never after its
\* holder has terminated (stated for pool_size > 0).
C19_LockOnlyDuringAppend ==
  pool_size > 0 => \A i \in Workers : At(lock_list, i) => Busy(i)

\* ---- C20
RECURSIVE SumSeq(_)
\* np.sum over a list of numbers (line 70)
SumSeq(l) == IF l = <<>> THEN 0 ELSE Head(l) + SumSeq(Tail(l))

\* C20: with random = true, (a) whenever worker p is about to take the
\* weighted branch (top of the loop, segment p written) the sum of
\* inverse_len is strictly positive; (b) a segment whose inverse_len entry is
\* 0 has been written by no worker other than its own.
C20_PositiveWeights ==
  random =>
    /\ \A p \in Workers :
         (At(pc, p) = "loop" /\ Written(p)) => SumSeq(inverse_len) > 0
    /\ \A i \in Workers :
         At(inverse_len, i) = 0 => At(writers, i) \subseteq {i}

\* C20 witness: random mode, one worker is about to take the weighted branch
\* while another worker's segment still has weight 0 and is unwritten.
C20_Witness ==
  /\ random
  /\ \E p, q \in Workers :
       /\ At(pc, p) = "loop" /\ Written(p)
       /\ At(inverse_len, q) = 0 /\ Unset(q)

====
